---- MODULE Spec2Model ----
(***************************************************************************)
(* Model of the HTTP client of glwbr/brew (package internal/client):       *)
(* the configuration builder, target resolution and query merging, the     *)
(* transport chain (header injection, logging) and the classification of   *)
(* the outcome of Client.do.                                               *)
(*                                                                         *)
(* Strings are sequences of one-character strings, so that parsing and     *)
(* serialisation are computed the way net/url computes them.               *)
(***************************************************************************)
EXTENDS Integers, Sequences, FiniteSets, TLC

\* ------------------------------------------------------------------ bounds

\* Longest tail of a request target that is enumerated.
MaxTail == 3
\* Longest tail of a target dispatched through the whole request pipeline.
MaxDoTail == 1
\* Most values a caller supplies in one set of query parameters.
MaxVals == 2
\* Largest retry count passed to WithRetryAttempts.
MaxRetry == 2
\* Most options passed to New.
MaxOpts == 2
\* Longest tail of a string passed to WithBaseURL.
MaxBaseTail == 2
\* Longest query string of a URL handed to addQueryParams directly.
MaxQuery == 3
\* Most headers in the Headers map of one RequestConfig.
MaxReqHdrs == 1
\* Most options passed to New when the configuration alone is followed.
MaxBuildOpts == 2
\* Most headers in a map passed to WithHeaders.
MaxBuildHdrs == 2
\* The calls that run at the same time on one client.
MaxCalls == 2
\* Most TransportOptions passed to NewTransport.
MaxFactories == 2

\* ------------------------------------------------------- string helpers

Letters == {"s", "h", "k", "p", "v", "w"}
SchemeExtra == {"0", "1", "2", "3", "4", "5", "6", "7", "8", "9", "+", "-", "."}
HexDigits == {"0", "1", "2", "3", "4", "5", "6", "7", "8", "9",
              "A", "B", "C", "D", "E", "F", "a", "b", "c", "d", "e", "f"}

\* Byte value of a character (strings compare bytewise in Go).
Ord(c) ==
  CASE c = " " -> 32 [] c = "%" -> 37 [] c = "&" -> 38 [] c = "+" -> 43
    [] c = "-" -> 45 [] c = "." -> 46 [] c = "/" -> 47
    [] c = "0" -> 48 [] c = "1" -> 49 [] c = "2" -> 50 [] c = "3" -> 51
    [] c = "4" -> 52 [] c = "5" -> 53 [] c = "6" -> 54 [] c = "7" -> 55
    [] c = "8" -> 56 [] c = "9" -> 57
    [] c = ":" -> 58 [] c = "=" -> 61 [] c = "?" -> 63
    [] c = "A" -> 65 [] c = "B" -> 66 [] c = "C" -> 67 [] c = "D" -> 68
    [] c = "E" -> 69 [] c = "F" -> 70
    [] c = "h" -> 104 [] c = "k" -> 107 [] c = "p" -> 112 [] c = "s" -> 115
    [] c = "v" -> 118 [] c = "w" -> 119
    [] OTHER -> 255

RECURSIVE StrLess(_, _)
\* a < b for Go strings.
StrLess(a, b) ==
  IF b = <<>> THEN FALSE
  ELSE IF a = <<>> THEN TRUE
  ELSE IF Ord(Head(a)) # Ord(Head(b)) THEN Ord(Head(a)) < Ord(Head(b))
  ELSE StrLess(Tail(a), Tail(b))

\* strings.Index for a one-byte separator: 0 when absent, else the 1-based place.
Index(s, c) ==
  IF \E i \in 1..Len(s) : s[i] = c
  THEN CHOOSE i \in 1..Len(s) : s[i] = c /\ \A j \in 1..(i - 1) : s[j] # c
  ELSE 0

\* strings.LastIndex for a one-byte separator: 0 when absent.
LastIndex(s, c) ==
  IF \E i \in 1..Len(s) : s[i] = c
  THEN CHOOSE i \in 1..Len(s) : s[i] = c /\ \A j \in (i + 1)..Len(s) : s[j] # c
  ELSE 0

Count(s, c) == Cardinality({i \in 1..Len(s) : s[i] = c})

HasPrefix(s, p) == Len(s) >= Len(p) /\ SubSeq(s, 1, Len(p)) = p

\* strings.Cut for a one-byte separator.
Cut(s, c) ==
  LET i == Index(s, c) IN
  IF i = 0 THEN [before |-> s, after |-> <<>>, found |-> FALSE]
  ELSE [before |-> SubSeq(s, 1, i - 1), after |-> SubSeq(s, i + 1, Len(s)),
        found |-> TRUE]

RECURSIVE TrimRight(_, _)
\* strings.TrimRight(s, c): every trailing c is removed.
TrimRight(s, c) ==
  IF s # <<>> /\ s[Len(s)] = c THEN TrimRight(SubSeq(s, 1, Len(s) - 1), c) ELSE s

RECURSIVE SeqsUpTo(_, _)
\* Every string over the characters S of length at most n.
SeqsUpTo(S, n) ==
  IF n = 0 THEN {<<>>}
  ELSE LET shorter == SeqsUpTo(S, n - 1) IN
       shorter \cup {Append(t, c) : t \in shorter, c \in S}

\* -------------------------------------------------------------- net/url

\* The fields of url.URL that a target over the modelled characters can set
\* (no userinfo and no fragment: "@" and "#" are not among them).
EmptyURL ==
  [Scheme |-> <<>>, Opaque |-> <<>>, Host |-> <<>>, Path |-> <<>>,
   RawQuery |-> <<>>, ForceQuery |-> FALSE, OmitHost |-> FALSE]

RECURSIVE getSchemeAt(_, _)
getSchemeAt(raw, i) ==
  IF i > Len(raw) THEN [scheme |-> <<>>, rest |-> raw, err |-> FALSE]
  ELSE IF raw[i] \in Letters THEN getSchemeAt(raw, i + 1)
  ELSE IF raw[i] \in SchemeExtra
    THEN (IF i = 1 THEN [scheme |-> <<>>, rest |-> raw, err |-> FALSE]
          ELSE getSchemeAt(raw, i + 1))
  ELSE IF raw[i] = ":"
    THEN (IF i = 1 THEN [scheme |-> <<>>, rest |-> <<>>, err |-> TRUE]
          ELSE [scheme |-> SubSeq(raw, 1, i - 1),
                rest |-> SubSeq(raw, i + 1, Len(raw)), err |-> FALSE])
  ELSE [scheme |-> <<>>, rest |-> raw, err |-> FALSE]

\* url.getScheme: the leading "scheme:" of a raw URL, if any.
getScheme(raw) == getSchemeAt(raw, 1)

\* The byte a valid "%XY" escape stands for.
unhex(a, b) ==
  CASE <<a, b>> = <<"2", "0">> -> " " [] <<a, b>> = <<"2", "5">> -> "%"
    [] <<a, b>> = <<"2", "6">> -> "&" [] <<a, b>> = <<"2", "B">> -> "+"
    [] <<a, b>> = <<"2", "F">> -> "/" [] <<a, b>> = <<"3", "A">> -> ":"
    [] <<a, b>> = <<"3", "D">> -> "=" [] <<a, b>> = <<"3", "F">> -> "?"
    [] OTHER -> "\\x"

RECURSIVE unescapeAt(_, _, _)
unescapeAt(s, i, plusIsSpace) ==
  IF i > Len(s) THEN [ok |-> TRUE, s |-> <<>>]
  ELSE IF s[i] = "%"
    THEN IF i + 2 > Len(s) \/ s[i + 1] \notin HexDigits \/ s[i + 2] \notin HexDigits
         THEN [ok |-> FALSE, s |-> <<>>]
         ELSE LET r == unescapeAt(s, i + 3, plusIsSpace) IN
              [ok |-> r.ok, s |-> <<unhex(s[i + 1], s[i + 2])>> \o r.s]
  ELSE LET r == unescapeAt(s, i + 1, plusIsSpace) IN
       [ok |-> r.ok,
        s |-> <<IF plusIsSpace /\ s[i] = "+" THEN " " ELSE s[i]>> \o r.s]

\* url.unescape: fails on a "%" that two hex digits do not follow.
unescape(s, plusIsSpace) ==
  LET r == unescapeAt(s, 1, plusIsSpace) IN
  IF r.ok THEN r ELSE [ok |-> FALSE, s |-> <<>>]

\* url.validOptionalPort: "" or ":" followed by digits only.
validOptionalPort(port) ==
  \/ port = <<>>
  \/ /\ port[1] = ":"
     /\ \A i \in 2..Len(port) : port[i] \in {"0", "1", "2", "3", "4", "5", "6", "7", "8", "9"}

\* url.parseHost, for hosts that are not IP literals.
parseHost(host) ==
  LET i == LastIndex(host, ":") IN
  IF i # 0 /\ ~validOptionalPort(SubSeq(host, i, Len(host)))
  THEN [ok |-> FALSE, s |-> <<>>]
  ELSE unescape(host, FALSE)

\* url.parse(rawURL, viaRequest = false).
Parse(rawURL) ==
  LET sch == getScheme(rawURL) IN
  IF sch.err THEN [ok |-> FALSE, url |-> EmptyURL]
  ELSE
    LET rest0 == sch.rest
        force == rest0 # <<>> /\ rest0[Len(rest0)] = "?" /\ Count(rest0, "?") = 1
        cutq == Cut(rest0, "?")
        rest == IF force THEN SubSeq(rest0, 1, Len(rest0) - 1) ELSE cutq.before
        rawq == IF force THEN <<>> ELSE cutq.after
        u0 == [EmptyURL EXCEPT !.Scheme = sch.scheme, !.RawQuery = rawq,
                               !.ForceQuery = force]
    IN
    IF ~HasPrefix(rest, <<"/">>) /\ sch.scheme # <<>>
      THEN [ok |-> TRUE, url |-> [u0 EXCEPT !.Opaque = rest]]
    ELSE IF ~HasPrefix(rest, <<"/">>) /\ Index(Cut(rest, "/").before, ":") # 0
      THEN [ok |-> FALSE, url |-> EmptyURL]
    ELSE
      LET hasAuth == (sch.scheme # <<>> \/ ~HasPrefix(rest, <<"/", "/", "/">>))
                       /\ HasPrefix(rest, <<"/", "/">>)
          auth0 == SubSeq(rest, 3, Len(rest))
          slash == Index(auth0, "/")
          authority == IF slash = 0 THEN auth0 ELSE SubSeq(auth0, 1, slash - 1)
          pathRaw == IF ~hasAuth THEN rest
                     ELSE IF slash = 0 THEN <<>>
                     ELSE SubSeq(auth0, slash, Len(auth0))
          host == IF hasAuth THEN parseHost(authority) ELSE [ok |-> TRUE, s |-> <<>>]
          omit == ~hasAuth /\ sch.scheme # <<>> /\ HasPrefix(rest, <<"/">>)
          path == unescape(pathRaw, FALSE)
      IN
      IF ~host.ok \/ ~path.ok THEN [ok |-> FALSE, url |-> EmptyURL]
      ELSE [ok |-> TRUE,
            url |-> [u0 EXCEPT !.Host = host.s, !.Path = path.s, !.OmitHost = omit]]

\* IsAbs testing the host where the code tests the scheme.
IsAbs_byHost(u) == u.Host # <<>>

\* URL.IsAbs: a URL is absolute when its scheme is not empty.
IsAbs(u) == u.Scheme # <<>>

\* url.resolvePath for paths without "." and ".." segments: the reference
\* replaces the base's last segment, and the result starts with a slash.
resolvePath(base, ref) ==
  LET full == IF ref = <<>> THEN base
              ELSE IF ref[1] # "/" THEN SubSeq(base, 1, LastIndex(base, "/")) \o ref
              ELSE ref
  IN IF full = <<>> THEN <<>>
     ELSE IF full[1] = "/" THEN full
     ELSE <<"/">> \o full

\* ResolveReference that never takes the query of the base.
ResolveReference_ownQueryOnly(u, ref) ==
  LET url == IF ref.Scheme = <<>> THEN [ref EXCEPT !.Scheme = u.Scheme] ELSE ref IN
  IF ref.Scheme # <<>> \/ ref.Host # <<>>
    THEN [url EXCEPT !.Path = resolvePath(ref.Path, <<>>)]
  ELSE IF ref.Opaque # <<>>
    THEN [url EXCEPT !.Host = <<>>, !.Path = <<>>]
  ELSE IF ref.Path = <<>> /\ u.Opaque # <<>>
    THEN [url EXCEPT !.Opaque = u.Opaque, !.Host = <<>>, !.Path = <<>>]
  ELSE [url EXCEPT !.Host = u.Host, !.Path = resolvePath(u.Path, ref.Path)]

\* URL.ResolveReference: RFC 3986 resolution of ref against the base u.
ResolveReference(u, ref) ==
  LET url == IF ref.Scheme = <<>> THEN [ref EXCEPT !.Scheme = u.Scheme] ELSE ref IN
  IF ref.Scheme # <<>> \/ ref.Host # <<>>
    THEN [url EXCEPT !.Path = resolvePath(ref.Path, <<>>)]
  ELSE IF ref.Opaque # <<>>
    THEN [url EXCEPT !.Host = <<>>, !.Path = <<>>]
  ELSE
    LET inherit == ref.Path = <<>> /\ ~ref.ForceQuery /\ ref.RawQuery = <<>>
        url1 == IF inherit THEN [url EXCEPT !.RawQuery = u.RawQuery] ELSE url
    IN
    IF ref.Path = <<>> /\ u.Opaque # <<>>
      THEN [url1 EXCEPT !.Opaque = u.Opaque, !.Host = <<>>, !.Path = <<>>]
    ELSE [url1 EXCEPT !.Host = u.Host, !.Path = resolvePath(u.Path, ref.Path)]

\* c.baseURL.ResolveReference(u) that resolves into the base URL itself.
resolveReference_inPlace(hp, base, u, new) ==
  [heap |-> [hp EXCEPT ![base] = ResolveReference(hp[base], hp[u])], ref |-> base]

\* resolved := c.baseURL.ResolveReference(u) on URL objects: the result is a
\* new object, at address new; the base and the reference are only read.
resolveReference(hp, base, u, new) ==
  [heap |-> [hp EXCEPT ![new] = ResolveReference(hp[base], hp[u])], ref |-> new]

\* URL.String.
String(u) ==
  LET scheme == IF u.Scheme # <<>> THEN u.Scheme \o <<":">> ELSE <<>>
      auth == IF u.Scheme # <<>> \/ u.Host # <<>>
              THEN IF u.OmitHost /\ u.Host = <<>> THEN <<>>
                   ELSE (IF u.Host # <<>> \/ u.Path # <<>> THEN <<"/", "/">> ELSE <<>>)
                        \o u.Host
              ELSE <<>>
      sep == IF u.Path # <<>> /\ u.Path[1] # "/" /\ u.Host # <<>> THEN <<"/">> ELSE <<>>
      dot == IF scheme \o auth \o sep = <<>> /\ Index(Cut(u.Path, "/").before, ":") # 0
             THEN <<".", "/">> ELSE <<>>
      body == IF u.Opaque # <<>> THEN u.Opaque ELSE auth \o sep \o dot \o u.Path
      query == IF u.ForceQuery \/ u.RawQuery # <<>> THEN <<"?">> \o u.RawQuery ELSE <<>>
  IN scheme \o body \o query

\* --------------------------------------------------------- url.Values

\* url.Values: a map from key to the list of its values.
EmptyValues == [k \in {} |-> <<>>]

\* Values.Add.
Add(q, k, v) ==
  IF k \in DOMAIN q THEN [q EXCEPT ![k] = Append(@, v)]
  ELSE [x \in DOMAIN q \cup {k} |-> IF x = k THEN <<v>> ELSE q[x]]

RECURSIVE parseQuery(_, _)
\* url.parseQuery: pairs are split at "&" and "="; a pair whose key or value
\* does not unescape is skipped.
parseQuery(m, query) ==
  IF query = <<>> THEN m
  ELSE
    LET c == Cut(query, "&")
        kv == Cut(c.before, "=")
        key == unescape(kv.before, TRUE)
        value == unescape(kv.after, TRUE)
    IN
    IF c.before = <<>> \/ ~key.ok \/ ~value.ok THEN parseQuery(m, c.after)
    ELSE parseQuery(Add(m, key.s, value.s), c.after)

\* URL.Query: malformed pairs are silently discarded.
Query(u) == parseQuery(EmptyValues, u.RawQuery)

\* url.QueryEscape of one byte.
escapeByte(c) ==
  CASE c \in Letters -> <<c>>
    [] c \in {"-", "."} -> <<c>>
    [] c \in {"0", "1", "2", "3", "4", "5", "6", "7", "8", "9"} -> <<c>>
    [] c = " " -> <<"+">>
    [] c = "%" -> <<"%", "2", "5">>
    [] c = "&" -> <<"%", "2", "6">>
    [] c = "+" -> <<"%", "2", "B">>
    [] c = "/" -> <<"%", "2", "F">>
    [] c = ":" -> <<"%", "3", "A">>
    [] c = "=" -> <<"%", "3", "D">>
    [] c = "?" -> <<"%", "3", "F">>
    [] OTHER -> <<"%", "X", "X">>

RECURSIVE QueryEscape(_)
QueryEscape(s) == IF s = <<>> THEN <<>> ELSE escapeByte(Head(s)) \o QueryEscape(Tail(s))

RECURSIVE SortKeys(_)
\* The keys in increasing byte order (slices.Sort).
SortKeys(K) ==
  IF K = {} THEN <<>>
  ELSE LET m == CHOOSE k \in K : \A o \in K \ {k} : StrLess(k, o) IN
       <<m>> \o SortKeys(K \ {m})

RECURSIVE encodeValues(_, _)
encodeValues(keyEscaped, vs) ==
  IF vs = <<>> THEN <<>>
  ELSE <<keyEscaped \o <<"=">> \o QueryEscape(Head(vs))>> \o encodeValues(keyEscaped, Tail(vs))

RECURSIVE encodeKeys(_, _)
\* The "key=value" pieces of Values.Encode, in the order they are written.
encodeKeys(v, keys) ==
  IF keys = <<>> THEN <<>>
  ELSE encodeValues(QueryEscape(Head(keys)), v[Head(keys)]) \o encodeKeys(v, Tail(keys))

RECURSIVE joinAmp(_)
joinAmp(pieces) ==
  IF pieces = <<>> THEN <<>>
  ELSE IF Len(pieces) = 1 THEN pieces[1]
  ELSE pieces[1] \o <<"&">> \o joinAmp(Tail(pieces))

\* Values.Encode: "k=v" pairs joined by "&", sorted by key.
Encode(v) == joinAmp(encodeKeys(v, SortKeys(DOMAIN v)))

\* ------------------------------------------------- target resolution

\* Caller-supplied query parameters: a nil map, or a url.Values.
NilParams == [isNil |-> TRUE, v |-> EmptyValues]
SomeParams(v) == [isNil |-> FALSE, v |-> v]

\* addAll with Values.Set in place of Values.Add: the supplied values replace
\* the values the key already has.
addAll_replacing(q, k, values) ==
  IF values = <<>> THEN q
  ELSE [x \in DOMAIN q \cup {k} |-> IF x = k THEN values ELSE q[x]]

RECURSIVE addAll(_, _, _)
\* The inner loop of addQueryParams for one key.
addAll(q, k, values) ==
  IF values = <<>> THEN q ELSE addAll(Add(q, k, Head(values)), k, Tail(values))

RECURSIVE addKeys(_, _, _)
\* The outer loop of addQueryParams (keys do not interfere: any order of the
\* map iteration gives the same result).
addKeys(q, params, keys) ==
  IF keys = {} THEN q
  ELSE LET k == CHOOSE x \in keys : TRUE IN
       addKeys(addAll(q, k, params[k]), params, keys \ {k})

\* Client.addQueryParams on the URL object hp[u]: the object is written in
\* place and the same reference is returned.
addQueryParams(hp, u, params) ==
  IF params.isNil THEN [heap |-> hp, ref |-> u]
  ELSE LET q == addKeys(Query(hp[u]), params.v, DOMAIN params.v) IN
       [heap |-> [hp EXCEPT ![u].RawQuery = Encode(q)], ref |-> u]

NoError == "nil"
ErrInvalidURL == "invalid URL or path"
ErrNoBaseURL == "cannot resolve relative path without a base URL"

\* The return of resolveURL after addQueryParams returned r for the object
\* that was "given" to it.
resolvedWith(r, given) ==
  [heap |-> r.heap, ref |-> r.ref, err |-> NoError, given |-> given]

\* resolveURL for a relative target: hp[resolved] is what ResolveReference made.
resolveRelative(hp, resolved, queryParams) ==
  resolvedWith(addQueryParams(hp, resolved, queryParams), hp[resolved])

\* resolveTarget that resolves a relative target into the base URL object.
resolveTarget_intoBase(hp, u, base, queryParams) ==
  IF IsAbs(hp[u])
    THEN resolvedWith(addQueryParams(hp, u, queryParams), hp[u])
  ELSE IF base = 0
    THEN [heap |-> hp, ref |-> 0, err |-> ErrNoBaseURL, given |-> EmptyURL]
  ELSE resolveRelative([hp EXCEPT ![base] = ResolveReference(hp[base], hp[u])], base,
                       queryParams)

\* resolveTarget that uses a relative target as it is when there is no base URL.
resolveTarget_withoutBase(hp, u, base, queryParams) ==
  IF IsAbs(hp[u]) \/ base = 0
    THEN resolvedWith(addQueryParams(hp, u, queryParams), hp[u])
  ELSE resolveRelative(Append(hp, ResolveReference(hp[base], hp[u])), Len(hp) + 1,
                       queryParams)

\* resolveURL after url.Parse made the object hp[u].
resolveTarget(hp, u, base, queryParams) ==
  IF IsAbs(hp[u])
    THEN resolvedWith(addQueryParams(hp, u, queryParams), hp[u])
  ELSE IF base = 0
    THEN [heap |-> hp, ref |-> 0, err |-> ErrNoBaseURL, given |-> EmptyURL]
  ELSE resolveRelative(Append(hp, ResolveReference(hp[base], hp[u])), Len(hp) + 1,
                       queryParams)

\* resolveURL after url.Parse returned p.
resolveParsed(hp, base, p, queryParams) ==
  IF ~p.ok
    THEN [heap |-> hp, ref |-> 0, err |-> ErrInvalidURL, given |-> EmptyURL]
  ELSE resolveTarget(Append(hp, p.url), Len(hp) + 1, base, queryParams)

\* Client.resolveURL. hp is the heap of URL objects, base the client's
\* baseURL (0 is nil). "given" records the object handed to addQueryParams
\* as it was at that call.
resolveURL(hp, base, pathOrURL, queryParams) ==
  resolveParsed(hp, base, Parse(pathOrURL), queryParams)

\* ---------------------------------------------------- configuration

defaultTimeout == 10
defaultUserAgent == "Mozilla/5.0"
defaultRetryAttempts == 3

\* A *url.URL held by the configuration draft: nil, or a URL value.
NilURL == [isNil |-> TRUE, url |-> EmptyURL]
SomeURL(u) == [isNil |-> FALSE, url |-> u]

\* normalizeBaseURL after url.Parse returned p.
normalizeParsed(p) ==
  IF ~p.ok THEN [ok |-> FALSE, url |-> EmptyURL]
  ELSE IF ~IsAbs(p.url) THEN [ok |-> FALSE, url |-> EmptyURL]
  ELSE [ok |-> TRUE, url |-> [p.url EXCEPT !.Path = TrimRight(p.url.Path, "/")]]

\* normalizeBaseURL: the URL must parse and be absolute; every trailing
\* slash of its path is removed.
normalizeBaseURL(baseURL) == normalizeParsed(Parse(baseURL))

\* maps.Copy that leaves alone the keys dst already has.
CopyInto_keepingExisting(dst, src) ==
  [k \in DOMAIN dst \cup DOMAIN src |-> IF k \in DOMAIN dst THEN dst[k] ELSE src[k]]

\* maps.Copy that joins the new value to the one dst already has.
CopyInto_joining(dst, src) ==
  [k \in DOMAIN dst \cup DOMAIN src |->
     IF k \in DOMAIN src /\ k \in DOMAIN dst THEN dst[k] \o "," \o src[k]
     ELSE IF k \in DOMAIN src THEN src[k] ELSE dst[k]]

\* maps.Copy(dst, src).
CopyInto(dst, src) ==
  [k \in DOMAIN dst \cup DOMAIN src |-> IF k \in DOMAIN src THEN src[k] ELSE dst[k]]

WithTimeout(cfg, d) == IF d > 0 THEN [cfg EXCEPT !.Timeout = d] ELSE cfg

\* WithBaseURL after normalizeBaseURL returned n: an error leaves the draft alone.
setBaseURL(cfg, n) == IF ~n.ok THEN cfg ELSE [cfg EXCEPT !.BaseURL = SomeURL(n.url)]

WithBaseURL(cfg, baseURL) ==
  IF baseURL = <<>> THEN cfg ELSE setBaseURL(cfg, normalizeBaseURL(baseURL))

WithRetryAttempts(cfg, attempts) ==
  IF attempts >= 0 THEN [cfg EXCEPT !.RetryAttempts = attempts] ELSE cfg

WithHeaders(cfg, headers) ==
  IF DOMAIN headers = {} THEN cfg
  ELSE [cfg EXCEPT !.Headers = CopyInto(@, headers)]

WithCookieJar(cfg, jar) == IF jar # "nil" THEN [cfg EXCEPT !.Jar = jar] ELSE cfg

WithLogger(cfg, l) == IF l # "nil" THEN [cfg EXCEPT !.Logger = l] ELSE cfg

WithDebug(cfg, enable) == [cfg EXCEPT !.Debug = enable]

WithCustomDoer(cfg, d) == IF d # "nil" THEN [cfg EXCEPT !.CustomDoer = d] ELSE cfg

\* A ClientOption is the closure an option constructor returns; here the
\* constructor's name with its argument.
ApplyOption(cfg, opt) ==
  CASE opt.op = "WithTimeout" -> WithTimeout(cfg, opt.arg)
    [] opt.op = "WithBaseURL" -> WithBaseURL(cfg, opt.arg)
    [] opt.op = "WithRetryAttempts" -> WithRetryAttempts(cfg, opt.arg)
    [] opt.op = "WithHeaders" -> WithHeaders(cfg, opt.arg)
    [] opt.op = "WithCookieJar" -> WithCookieJar(cfg, opt.arg)
    [] opt.op = "WithLogger" -> WithLogger(cfg, opt.arg)
    [] opt.op = "WithDebug" -> WithDebug(cfg, opt.arg)
    [] opt.op = "WithCustomDoer" -> WithCustomDoer(cfg, opt.arg)

\* The draft buildConfig starts from.
DefaultConfig ==
  [BaseURL |-> NilURL, Timeout |-> defaultTimeout,
   RetryAttempts |-> defaultRetryAttempts,
   Headers |-> [k \in {"User-Agent"} |-> defaultUserAgent],
   Jar |-> "nil", Logger |-> "NoOp", Debug |-> FALSE, CustomDoer |-> "nil"]

RECURSIVE applyAll(_, _)
applyAll(cfg, opts) ==
  IF opts = <<>> THEN cfg ELSE applyAll(ApplyOption(cfg, Head(opts)), Tail(opts))

\* buildConfig: the defaults, then every option in order.
buildConfig(opts) == applyAll(DefaultConfig, opts)

\* buildTransport with the logging link outermost.
buildTransport_loggingOutermost(cfg) ==
  <<[kind |-> "logging", Headers |-> [k \in {} |-> ""], Logger |-> cfg.Logger,
     Debug |-> cfg.Debug],
    [kind |-> "headers", Headers |-> cfg.Headers, Logger |-> "nil", Debug |-> FALSE]>>

\* buildTransport: the links of the chain, outermost first; the raw
\* transport (http.DefaultTransport) ends it.
buildTransport(cfg) ==
  <<[kind |-> "headers", Headers |-> cfg.Headers, Logger |-> "nil", Debug |-> FALSE],
    [kind |-> "logging", Headers |-> [k \in {} |-> ""], Logger |-> cfg.Logger,
     Debug |-> cfg.Debug]>>

\* WithHeadersTransport(headers): the link the TransportOption makes; the
\* next link is the one that follows it in the chain.
WithHeadersTransport(headers) ==
  [kind |-> "headers", Headers |-> headers, Logger |-> "nil", Debug |-> FALSE]

\* WithLogging(logger, debug), likewise.
WithLogging(logger, debug) ==
  [kind |-> "logging", Headers |-> [k \in {} |-> ""], Logger |-> logger, Debug |-> debug]

RECURSIVE NewTransportFrom(_, _, _)
\* The loop of NewTransport from index i down: opts[i] wraps the transport
\* made so far and so comes in front of it.
NewTransportFrom(opts, i, transport) ==
  IF i < 1 THEN transport
  ELSE NewTransportFrom(opts, i - 1, <<opts[i]>> \o transport)

\* NewTransport(opts...): the chain, outermost link first, over
\* http.DefaultTransport (the empty chain is the raw transport itself).
NewTransport(opts) == NewTransportFrom(opts, Len(opts), <<>>)

\* createDefaultDoer: an http.Client over the transport chain.
createDefaultDoer(cfg) ==
  [kind |-> "http.Client", Timeout |-> cfg.Timeout, Transport |-> buildTransport(cfg),
   Jar |-> cfg.Jar]

\* New after buildConfig returned cfg: the client, and the heap holding its
\* base URL (reference 1) if any.
newClient(cfg) ==
  [doer |-> IF cfg.CustomDoer # "nil"
            THEN [kind |-> cfg.CustomDoer, Timeout |-> 0, Transport |-> <<>>, Jar |-> "nil"]
            ELSE createDefaultDoer(cfg),
   baseURL |-> IF cfg.BaseURL.isNil THEN 0 ELSE 1,
   logger |-> cfg.Logger,
   config |-> cfg,
   heap |-> IF cfg.BaseURL.isNil THEN <<>> ELSE <<cfg.BaseURL.url>>]

\* New.
New(opts) == newClient(buildConfig(opts))

\* ----------------------------------------------------------- net/http

\* textproto.CanonicalMIMEHeaderKey on the header names in use.
Canon(name) ==
  CASE name = "x-a" -> "X-A"
    [] name = "user-agent" -> "User-Agent"
    [] OTHER -> name

\* http.Header with one value per name: a map from canonical name to value.
EmptyHeader == [k \in {} |-> ""]

\* Header.Get: "" when the name is absent.
HGet(h, k) == IF Canon(k) \in DOMAIN h THEN h[Canon(k)] ELSE ""

\* Header.Set.
HSet(h, k, v) ==
  [x \in DOMAIN h \cup {Canon(k)} |-> IF x = Canon(k) THEN v ELSE h[x]]

Without(m, k) == [x \in DOMAIN m \ {k} |-> m[x]]

RECURSIVE SetEach(_, _)
\* "for k, v := range m { h.Set(k, v) }": the headers that can result, one
\* for every order in which the map may be iterated.
SetEach(h, m) ==
  IF DOMAIN m = {} THEN {h}
  ELSE UNION {SetEach(HSet(h, k, m[k]), Without(m, k)) : k \in DOMAIN m}

RECURSIVE SetMissing(_, _)
\* "for k, v := range m { if h.Get(k) == "" { h.Set(k, v) } }", likewise.
SetMissing(h, m) ==
  IF DOMAIN m = {} THEN {h}
  ELSE UNION {SetMissing(IF HGet(h, k) = "" THEN HSet(h, k, m[k]) ELSE h, Without(m, k)) :
                k \in DOMAIN m}

\* A body stream: nil, or the bytes not read yet.
NoBody == [isNil |-> TRUE, data |-> <<>>]
BodyOf(bytes) == [isNil |-> FALSE, data |-> bytes]

NilResponse == [isNil |-> TRUE, StatusCode |-> 0, Body |-> NoBody]
Response(status, bytes) == [isNil |-> FALSE, StatusCode |-> status, Body |-> BodyOf(bytes)]

NoRequest == [Method |-> "", URL |-> EmptyURL, Header |-> EmptyHeader, Body |-> NoBody]

\* http.NewRequestWithContext after url.Parse returned p, for a valid method and
\* a context that is not nil.
newRequest(method, p, body) ==
  [ok |-> p.ok, req |-> [Method |-> method, URL |-> p.url, Header |-> EmptyHeader, Body |-> body]]

\* http.NewRequestWithContext: the URL string is parsed again.
NewRequestWithContext(method, url, body) == newRequest(method, Parse(url), body)

\* ---------------------------------------------------------- pkg/errors

NilError == [type |-> "nil", msg |-> "", cause |-> "", resp |-> NilResponse]

\* errors.Wrap(err, msg): the cause is kept, so its text is part of the message.
Wrap(err, msg) == [type |-> "error", msg |-> msg, cause |-> err, resp |-> NilResponse]

\* errors.NewHTTPError(resp, err, msg).
NewHTTPError(resp, err, msg) == [type |-> "HTTPError", msg |-> msg, cause |-> err, resp |-> resp]

\* The class of an error in the taxonomy of the specification.
ErrorKind(e) ==
  CASE e.type = "nil" -> "none"
    [] e.type = "error" -> "ConfigurationError"
    [] e.type = "HTTPError" /\ e.resp.isNil -> "NetworkError"
    [] OTHER -> "HTTPStatusError"

\* HTTPError.StatusCode.
StatusCodeOf(e) == e.resp.StatusCode

\* ------------------------------------------------------ transport chain

\* headersTransport.RoundTrip up to the call of the next link: the headers
\* the request may carry afterwards.
HeadersInjected(link, header) == SetMissing(header, link.Headers)

\* LoggingBuffered that leaves the request with the body it has read to the end.
LoggingBuffered_notRestoring(link, body) ==
  IF ~link.Debug \/ body.isNil THEN [reqBody |-> <<>>, Body |-> body]
  ELSE [reqBody |-> body.data, Body |-> BodyOf(<<>>)]

\* loggingTransport.RoundTrip up to the call of the next link: the body is
\* read in full and replaced by a buffer holding the same bytes.
LoggingBuffered(link, body) ==
  IF ~link.Debug \/ body.isNil THEN [reqBody |-> <<>>, Body |-> body]
  ELSE [reqBody |-> body.data, Body |-> BodyOf(body.data)]

\* loggingTransport.logRequest: the record handed to the logger.
logRequest(link, r, reqBody) ==
  [logger |-> link.Logger, msg |-> "HTTP Request", method |-> r.Method,
   url |-> String(r.URL), headers |-> r.Header, body |-> reqBody]

\* loggingTransport.logResponse: the record, and the response with its body
\* read in full and replaced by a buffer holding the same bytes.
logResponse(link, resp) ==
  [record |-> [logger |-> link.Logger, msg |-> "HTTP Response", method |-> "",
               url |-> <<>>, headers |-> EmptyHeader, body |-> resp.Body.data],
   resp |-> IF resp.Body.isNil THEN resp ELSE [resp EXCEPT !.Body = BodyOf(resp.Body.data)]]

\* LoggingReturned with the request logged only when the next link succeeded.
LoggingReturned_onlyOnSuccess(link, r, reqBody, out) ==
  IF ~link.Debug \/ out.err # "nil" \/ out.resp.isNil THEN [records |-> <<>>, out |-> out]
  ELSE [records |-> <<logRequest(link, r, reqBody), logResponse(link, out.resp).record>>,
        out |-> [out EXCEPT !.resp = logResponse(link, out.resp).resp]]

\* loggingTransport.RoundTrip after the next link returned out: the records
\* emitted, and what is returned.
LoggingReturned(link, r, reqBody, out) ==
  IF ~link.Debug THEN [records |-> <<>>, out |-> out]
  ELSE IF out.err = "nil" /\ ~out.resp.isNil
    THEN LET lr == logResponse(link, out.resp) IN
         [records |-> <<logRequest(link, r, reqBody), lr.record>>,
          out |-> [out EXCEPT !.resp = lr.resp]]
  ELSE [records |-> <<logRequest(link, r, reqBody)>>, out |-> out]

\* Classified with "> 400" where the code has ">= 400".
Classified_above400(out) ==
  IF out.err # "nil"
    THEN [resp |-> NilResponse, err |-> NewHTTPError(NilResponse, out.err, "request failed")]
  ELSE IF out.resp.StatusCode > 400
    THEN [resp |-> out.resp,
          err |-> NewHTTPError(out.resp, "nil", "request returned error status")]
  ELSE [resp |-> out.resp, err |-> NilError]

\* Classified handing the doer's response on when the doer also returned an error.
Classified_keepingResponse(out) ==
  IF out.err # "nil"
    THEN [resp |-> out.resp, err |-> NewHTTPError(out.resp, out.err, "request failed")]
  ELSE IF out.resp.StatusCode >= 400
    THEN [resp |-> out.resp,
          err |-> NewHTTPError(out.resp, "nil", "request returned error status")]
  ELSE [resp |-> out.resp, err |-> NilError]

\* The end of Client.do: the classification of what the doer returned.
Classified(out) ==
  IF out.err # "nil"
    THEN [resp |-> NilResponse, err |-> NewHTTPError(NilResponse, out.err, "request failed")]
  ELSE IF out.resp.StatusCode >= 400
    THEN [resp |-> out.resp,
          err |-> NewHTTPError(out.resp, "nil", "request returned error status")]
  ELSE [resp |-> out.resp, err |-> NilError]

\* --------------------------------------------------------------- inputs

\* "s://h": a scheme and a host.
Origin == <<"s", ":", "/", "/", "h">>

TailChars == {"k", "/", ":", "?", "%", "&"}

\* Request targets: every short string, alone and after a scheme and host.
Targets == {pre \o t : pre \in {<<>>, Origin}, t \in SeqsUpTo(TailChars, MaxTail)}

BaseTailChars == {"/", "k", "?"}

\* Strings passed to WithBaseURL.
BaseInputs ==
  {pre \o t : pre \in {<<>>, Origin}, t \in SeqsUpTo(BaseTailChars, MaxBaseTail)}

ParamKeys == {<<"k">>, <<"p">>}
ParamVals == {<<"v">>, <<"w">>}

\* The number of values in a url.Values.
NumValues(v) ==
  IF DOMAIN v = {} THEN 0
  ELSE IF Cardinality(DOMAIN v) = 1 THEN Len(v[CHOOSE k \in DOMAIN v : TRUE])
  ELSE Len(v[<<"k">>]) + Len(v[<<"p">>])

\* Caller-supplied parameter sets: nil, or a map from some of the keys to
\* lists of values, at most MaxVals values in all.
ParamSets ==
  {NilParams} \cup
  {SomeParams(v) :
     v \in {w \in UNION {[K -> SeqsUpTo(ParamVals, MaxVals)] : K \in SUBSET ParamKeys} :
             NumValues(w) <= MaxVals}}

\* The parameter sets resolveURL is followed with: nil, empty, and k=v.
SmallParamSets ==
  {NilParams, SomeParams(EmptyValues), SomeParams([k \in {<<"k">>} |-> <<<<"v">>>>])}

QueryChars == {"k", "p", "&", "=", "%"}

\* Raw URLs handed to addQueryParams directly, as the package's tests do.
QueryInputs ==
  {Origin \o <<"/", "k">>} \cup
  {Origin \o <<"/", "k", "?">> \o q : q \in SeqsUpTo(QueryChars, MaxQuery)}

DoTailChars == {"k", ":"}

\* Targets of the calls that run through the whole of Client.do.
DoTargets == {pre \o t : pre \in {<<>>, Origin}, t \in SeqsUpTo(DoTailChars, MaxDoTail)}

DoParamSets == {NilParams, SomeParams([k \in {<<"k">>} |-> <<<<"v">>>>])}

Bodies == {NoBody, BodyOf(<<"b">>)}

ReqHeaderNames == {"x-a", "User-Agent"}
ReqHeaderVals == {"", "r"}

\* The Headers maps of a RequestConfig.
ReqHeaderMaps ==
  UNION {[K -> ReqHeaderVals] : K \in {S \in SUBSET ReqHeaderNames : Cardinality(S) <= MaxReqHdrs}}

\* The opts argument of Get and Post: nil, or a RequestConfig.
NilOpts == [isNil |-> TRUE, Params |-> NilParams, Body |-> NoBody, Headers |-> EmptyHeader]
RequestConfigs ==
  {NilOpts} \cup
  [isNil : {FALSE}, Params : DoParamSets, Body : Bodies, Headers : ReqHeaderMaps]

Statuses == {200, 399, 400, 404}

\* What the raw transport (http.DefaultTransport) may answer.
TransportOutcomes ==
  {[resp |-> Response(st, <<"r">>), err |-> "nil"] : st \in Statuses}
    \cup {[resp |-> NilResponse, err |-> "transport error"]}

\* What a custom Doer may answer: as a transport, or a response with an error.
DoerOutcomes ==
  TransportOutcomes \cup {[resp |-> Response(200, <<"r">>), err |-> "doer error"]}

\* The options given to the clients whose calls are followed.
DispatchOptions ==
  {[op |-> "WithBaseURL", arg |-> Origin \o <<"/", "k">>],
   [op |-> "WithBaseURL", arg |-> Origin \o <<"/", "k", "?", "k">>]}
    \cup {[op |-> "WithRetryAttempts", arg |-> n] : n \in 0..MaxRetry}
    \cup {[op |-> "WithHeaders", arg |-> [k \in {"X-A"} |-> "d"]],
          [op |-> "WithHeaders", arg |-> [k \in {"x-a"} |-> "e"]]}
    \cup {[op |-> "WithDebug", arg |-> TRUE]}
    \cup {[op |-> "WithCustomDoer", arg |-> "mock"]}

\* ---------------------------------------------------------------- state

VARIABLES
  client,   \* the Client that New returned: doer, baseURL, logger, config
  heap,     \* the live url.URL objects; heap[client.baseURL] is the base URL
  pc,       \* where the current call stands
  call,     \* the arguments of the current call
  res,      \* what resolveURL / addQueryParams returned
  req,      \* the *http.Request of the current call
  depth,    \* the link of the chain that runs next (Len + 1: the raw transport)
  locals,   \* reqBody of each RoundTrip that is waiting for its next link
  rt,       \* what the link below, or the doer, returned
  ret,      \* what Client.do returned
  attempts, \* one entry per attempt: the request the executor saw and its answer
  logs,     \* the records handed to the logger during the call
  draft,    \* the *ClientConfig that buildConfig is filling in
  applied,  \* while New runs: the options buildConfig has applied so far, in order
  trail,    \* while New runs: trail[i] is the draft as it was before applied[i]
  maps,     \* the live header maps: that of the draft, then those of the caller
  hdr,      \* the map object that cfg.Headers refers to
  newErr,   \* the error New returned ("none" while it has not)
  factories, \* the TransportOptions NewTransport was given
  procs     \* the calls that run at the same time on the client, one per goroutine

doVars == <<req, depth, locals, rt, ret, attempts, logs>>
buildVars == <<draft, applied, trail, maps, hdr, newErr, factories>>
vars ==
  <<client, heap, pc, call, res, req, depth, locals, rt, ret, attempts, logs, buildVars,
    procs>>

NoCall ==
  [method |-> "", target |-> <<>>, params |-> NilParams, headers |-> EmptyHeader,
   body |-> NoBody]
NoOutcome == [resp |-> NilResponse, err |-> "nil"]
NoReturn == [resp |-> NilResponse, err |-> NilError]
NoRes == [ref |-> 0, err |-> NoError, given |-> EmptyURL]

\* The client after New(opts), before any call.
Constructed(opts) ==
  \E c \in {New(opts)} :
  /\ client = [doer |-> c.doer, baseURL |-> c.baseURL, logger |-> c.logger,
               config |-> c.config]
  /\ heap = c.heap
  /\ pc = "idle"
  /\ call = NoCall
  /\ res = NoRes
  /\ req = NoRequest
  /\ depth = 0
  /\ locals = <<>>
  /\ rt = NoOutcome
  /\ ret = NoReturn
  /\ attempts = <<>>
  /\ logs = <<>>
  /\ draft = c.config
  /\ applied = <<>>
  /\ trail = <<>>
  /\ maps = <<c.config.Headers>>
  /\ hdr = 1
  /\ newErr = NoError
  /\ procs = <<>>
  /\ factories = <<>>

\* The call returns: the URL objects it made are garbage.
Release ==
  /\ pc \in {"resolved", "merged"}
  /\ pc' = "idle"
  /\ heap' = SubSeq(heap, 1, client.baseURL)
  /\ call' = NoCall
  /\ res' = NoRes
  /\ UNCHANGED <<buildVars, procs, client, doVars>>

\* ------------------------------------- specification: c.resolveURL(t, ps)

InitURL == \E b \in BaseInputs : Constructed(<<[op |-> "WithBaseURL", arg |-> b]>>)

ResolveURL(t, ps) ==
  /\ pc = "idle"
  /\ \E r \in {resolveURL(heap, client.baseURL, t, ps)} :
     /\ heap' = r.heap
     /\ res' = [ref |-> r.ref, err |-> r.err, given |-> r.given]
  /\ call' = [NoCall EXCEPT !.target = t, !.params = ps]
  /\ pc' = "resolved"
  /\ UNCHANGED <<buildVars, procs, client, doVars>>

NextURL ==
  \/ pc = "idle" /\ \E t \in Targets, ps \in SmallParamSets : ResolveURL(t, ps)
  \/ Release

SpecURL == InitURL /\ [][NextURL]_vars

\* --------------------------------- specification: c.addQueryParams(u, ps)

InitQuery == Constructed(<<>>)

AddQueryParams(raw, ps) ==
  /\ pc = "idle"
  /\ \E u \in {Parse(raw).url} :
       \E r \in {addQueryParams(Append(heap, u), Len(heap) + 1, ps)} :
         /\ heap' = r.heap
         /\ res' = [ref |-> r.ref, err |-> NoError, given |-> u]
  /\ call' = [NoCall EXCEPT !.target = raw, !.params = ps]
  /\ pc' = "merged"
  /\ UNCHANGED <<buildVars, procs, client, doVars>>

NextQuery ==
  \/ pc = "idle" /\ \E raw \in QueryInputs, ps \in ParamSets : AddQueryParams(raw, ps)
  \/ Release

SpecQuery == InitQuery /\ [][NextQuery]_vars

\* --------------------------- specification: c.Get / c.Post(target, opts)

RECURSIVE SeqsOver(_, _)
\* Every sequence over S of length at most n.
SeqsOver(S, n) ==
  IF n = 0 THEN {<<>>}
  ELSE LET shorter == SeqsOver(S, n - 1) IN
       shorter \cup {Append(t, x) : t \in shorter, x \in S}

Init == \E opts \in SeqsOver(DispatchOptions, MaxOpts) : Constructed(opts)

Chain == client.doer.Transport

\* Client.do up to the call of the doer: the target is resolved, the request
\* is made and the headers of the call are set on it. A nil opts stands for an
\* empty RequestConfig.
Do(method, urlOrPath, opts) ==
  /\ pc = "idle"
  /\ call' = [method |-> method, target |-> urlOrPath, params |-> opts.Params,
              headers |-> opts.Headers, body |-> opts.Body]
  /\ \E r \in {resolveURL(heap, client.baseURL, urlOrPath, opts.Params)} :
     /\ heap' = SubSeq(r.heap, 1, client.baseURL)
     /\ IF r.err # NoError
          THEN /\ ret' = [resp |-> NilResponse, err |-> Wrap(r.err, "failed to resolve URL")]
               /\ pc' = "done"
               /\ req' = NoRequest
          ELSE \E n \in {NewRequestWithContext(method, String(r.heap[r.ref]), opts.Body)} :
                 IF ~n.ok
                   THEN /\ ret' = [resp |-> NilResponse,
                                   err |-> Wrap(ErrInvalidURL, "failed to create request")]
                        /\ pc' = "done"
                        /\ req' = NoRequest
                   ELSE /\ \E h \in SetEach(n.req.Header, opts.Headers) :
                             req' = [n.req EXCEPT !.Header = h]
                        /\ pc' = "doer"
                        /\ ret' = ret
  /\ UNCHANGED <<buildVars, procs, client, res, depth, locals, rt, attempts, logs>>

\* Client.Get.
Get(path, opts) == Do("GET", path, opts)

\* Client.Post.
Post(path, opts) == Do("POST", path, opts)

\* c.doer.Do(req) on a custom Doer: it sees the request and answers.
CustomDo ==
  /\ pc = "doer"
  /\ client.doer.kind # "http.Client"
  /\ \E out \in DoerOutcomes :
       /\ rt' = out
       /\ attempts' = Append(attempts, [req |-> req, out |-> out])
  /\ req' = [req EXCEPT !.Body.data = <<>>]
  /\ pc' = "classify"
  /\ UNCHANGED <<buildVars, procs, client, heap, call, res, depth, locals, ret, logs>>

\* c.doer.Do(req) on the http.Client: the request enters the chain.
ClientDo ==
  /\ pc = "doer"
  /\ client.doer.kind = "http.Client"
  /\ pc' = "roundtrip"
  /\ depth' = 1
  /\ UNCHANGED <<buildVars, procs, client, heap, call, res, req, locals, rt, ret, attempts, logs>>

\* headersTransport.RoundTrip, to its call of the next link.
HeadersRoundTrip ==
  /\ pc = "roundtrip"
  /\ depth <= Len(Chain)
  /\ Chain[depth].kind = "headers"
  /\ \E h \in HeadersInjected(Chain[depth], req.Header) : req' = [req EXCEPT !.Header = h]
  /\ locals' = Append(locals, <<>>)
  /\ depth' = depth + 1
  /\ UNCHANGED <<buildVars, procs, client, heap, pc, call, res, rt, ret, attempts, logs>>

\* loggingTransport.RoundTrip, to its call of the next link.
LoggingRoundTrip ==
  /\ pc = "roundtrip"
  /\ depth <= Len(Chain)
  /\ Chain[depth].kind = "logging"
  /\ LET b == LoggingBuffered(Chain[depth], req.Body) IN
     /\ req' = [req EXCEPT !.Body = b.Body]
     /\ locals' = Append(locals, b.reqBody)
  /\ depth' = depth + 1
  /\ UNCHANGED <<buildVars, procs, client, heap, pc, call, res, rt, ret, attempts, logs>>

\* http.DefaultTransport.RoundTrip: the raw transport sees the request, reads
\* its body and answers.
RawRoundTrip ==
  /\ pc = "roundtrip"
  /\ depth = Len(Chain) + 1
  /\ \E out \in TransportOutcomes :
       /\ rt' = out
       /\ attempts' = Append(attempts, [req |-> req, out |-> out])
  /\ req' = [req EXCEPT !.Body.data = <<>>]
  /\ pc' = "return"
  /\ depth' = depth - 1
  /\ UNCHANGED <<buildVars, procs, client, heap, call, res, locals, ret, logs>>

\* loggingTransport.RoundTrip, from the return of the next link to its own.
LoggingReturn ==
  /\ pc = "return"
  /\ depth >= 1
  /\ Chain[depth].kind = "logging"
  /\ LET r == LoggingReturned(Chain[depth], req, locals[depth], rt) IN
     /\ logs' = logs \o r.records
     /\ rt' = r.out
  /\ locals' = SubSeq(locals, 1, depth - 1)
  /\ depth' = depth - 1
  /\ UNCHANGED <<buildVars, procs, client, heap, pc, call, res, req, ret, attempts>>

\* headersTransport.RoundTrip returns what the next link returned.
HeadersReturn ==
  /\ pc = "return"
  /\ depth >= 1
  /\ Chain[depth].kind = "headers"
  /\ locals' = SubSeq(locals, 1, depth - 1)
  /\ depth' = depth - 1
  /\ UNCHANGED <<buildVars, procs, client, heap, pc, call, res, req, rt, ret, attempts, logs>>

\* http.Client.Do returns: a nil response whenever the transport failed.
ClientReturn ==
  /\ pc = "return"
  /\ depth = 0
  /\ rt' = IF rt.err # "nil" THEN [rt EXCEPT !.resp = NilResponse] ELSE rt
  /\ pc' = "classify"
  /\ UNCHANGED <<buildVars, procs, client, heap, call, res, req, depth, locals, ret, attempts, logs>>

\* Client.do from the return of the doer to its own.
Classify ==
  /\ pc = "classify"
  /\ ret' = Classified(rt)
  /\ pc' = "done"
  /\ UNCHANGED <<buildVars, procs, client, heap, call, res, req, depth, locals, rt, attempts, logs>>

\* The caller has the result; the next call starts afresh.
Return ==
  /\ pc = "done"
  /\ pc' = "idle"
  /\ call' = NoCall
  /\ req' = NoRequest
  /\ rt' = NoOutcome
  /\ ret' = NoReturn
  /\ attempts' = <<>>
  /\ logs' = <<>>
  /\ UNCHANGED <<buildVars, procs, client, heap, res, depth, locals>>

Next ==
  \/ pc = "idle" /\ \E t \in DoTargets, o \in RequestConfigs : Get(t, o)
  \/ pc = "idle" /\ \E t \in DoTargets, o \in RequestConfigs : Post(t, o)
  \/ CustomDo
  \/ ClientDo
  \/ HeadersRoundTrip
  \/ LoggingRoundTrip
  \/ RawRoundTrip
  \/ LoggingReturn
  \/ HeadersReturn
  \/ ClientReturn
  \/ Classify
  \/ Return

Spec == Init /\ [][Next]_vars

\* --------------------------------------- specification: New(opts...)

\* WithHeaders that makes the caller's map the draft's own.
WithHeadersRef_aliasing(ms, ref, headers) ==
  [maps |-> ms, ref |-> IF DOMAIN ms[headers] = {} THEN ref ELSE headers]

\* WithHeaders on map objects: ref is cfg.Headers, headers the caller's map.
\* The entries are copied into the draft's map, which stays the same object.
WithHeadersRef(ms, ref, headers) ==
  IF DOMAIN ms[headers] = {} THEN [maps |-> ms, ref |-> ref]
  ELSE [maps |-> [ms EXCEPT ![ref] = CopyInto(ms[ref], ms[headers])], ref |-> ref]

\* Durations passed to WithTimeout, in seconds.
BuildTimeouts == {-1, 0, 5, 20}

\* Strings passed to WithBaseURL: empty, relative, unparseable, with a scheme
\* only, with a scheme and a host; with and without trailing slashes.
BuildBaseInputs ==
  {<<":">>, <<"%">>} \cup
  {pre \o t : pre \in {<<>>, <<"s", ":">>, Origin},
              t \in {<<>>, <<"/">>, <<"k">>, <<"/", "k">>, <<"/", "k", "/">>}}

BuildHeaderNames == {"X-A", "User-Agent"}
BuildHeaderVals == {"d", "e"}

\* Maps passed to WithHeaders: empty, or at most MaxBuildHdrs names; a map
\* of several names gives "d" to each.
BuildHeaderMaps ==
  {h \in UNION {[K -> BuildHeaderVals] : K \in SUBSET BuildHeaderNames} :
     /\ Cardinality(DOMAIN h) <= MaxBuildHdrs
     /\ (Cardinality(DOMAIN h) > 1 => \A k \in DOMAIN h : h[k] = "d")}

\* The options New is given: every constructor, with arguments it accepts
\* and arguments it ignores.
BuildOptions ==
  {[op |-> "WithTimeout", arg |-> d] : d \in BuildTimeouts}
    \cup {[op |-> "WithBaseURL", arg |-> b] : b \in BuildBaseInputs}
    \cup {[op |-> "WithRetryAttempts", arg |-> n] : n \in -1..MaxRetry}
    \cup {[op |-> "WithHeaders", arg |-> h] : h \in BuildHeaderMaps}
    \cup {[op |-> "WithCookieJar", arg |-> j] : j \in {"nil", "jar1", "jar2"}}
    \cup {[op |-> "WithLogger", arg |-> l] : l \in {"nil", "custom"}}
    \cup {[op |-> "WithDebug", arg |-> b] : b \in BOOLEAN}
    \cup {[op |-> "WithCustomDoer", arg |-> d] : d \in {"nil", "mock"}}

\* No client yet.
NoClient ==
  [doer |-> [kind |-> "nil", Timeout |-> 0, Transport |-> <<>>, Jar |-> "nil"],
   baseURL |-> 0, logger |-> "nil", config |-> DefaultConfig]

\* New has been called and buildConfig has made the draft with its defaults.
InitBuild ==
  /\ client = NoClient
  /\ heap = <<>>
  /\ pc = "build"
  /\ call = NoCall
  /\ res = NoRes
  /\ req = NoRequest
  /\ depth = 0
  /\ locals = <<>>
  /\ rt = NoOutcome
  /\ ret = NoReturn
  /\ attempts = <<>>
  /\ logs = <<>>
  /\ draft = DefaultConfig
  /\ applied = <<>>
  /\ trail = <<>>
  /\ maps = <<DefaultConfig.Headers>>
  /\ hdr = 1
  /\ newErr = "none"
  /\ procs = <<>>
  /\ factories = <<>>

\* One turn of the loop of buildConfig: opt(cfg). The map of a headers option
\* is an object of the caller's.
ApplyOpt(opt) ==
  /\ pc = "build"
  /\ Len(applied) < MaxBuildOpts
  /\ draft' = ApplyOption(draft, opt)
  /\ applied' = Append(applied, opt)
  /\ trail' = Append(trail, draft)
  /\ IF opt.op = "WithHeaders"
       THEN \E r \in {WithHeadersRef(Append(maps, opt.arg), hdr, Len(maps) + 1)} :
              /\ maps' = r.maps
              /\ hdr' = r.ref
       ELSE UNCHANGED <<maps, hdr>>
  /\ UNCHANGED <<client, heap, pc, call, res, doVars, newErr, procs, factories>>

\* The loop is over: New makes the doer and returns the client and a nil error.
NewReturns ==
  /\ pc = "build"
  /\ \E c \in {newClient(draft)} :
       /\ client' = [doer |-> c.doer, baseURL |-> c.baseURL, logger |-> c.logger,
                     config |-> c.config]
       /\ heap' = c.heap
  /\ newErr' = NoError
  /\ pc' = "built"
  /\ UNCHANGED <<call, res, doVars, draft, applied, trail, maps, hdr, procs, factories>>

\* The caller writes to a map it gave to WithHeaders, after New returned.
MutateCallerMap(i, k) ==
  /\ pc = "built"
  /\ i \in 2..Len(maps)
  /\ maps' = [maps EXCEPT ![i] = [x \in DOMAIN @ \cup {k} |-> IF x = k THEN "m" ELSE @[x]]]
  /\ maps' # maps
  /\ UNCHANGED <<client, heap, pc, call, res, doVars, draft, applied, trail, hdr, newErr, procs,
                 factories>>

NextBuild ==
  \/ pc = "build" /\ \E opt \in BuildOptions : ApplyOpt(opt)
  \/ NewReturns
  \/ pc = "built" /\ \E i \in 1..(MaxBuildOpts + 1), k \in BuildHeaderNames : MutateCallerMap(i, k)

SpecBuild == InitBuild /\ [][NextBuild]_vars

\* --------------------- specification: calls on one client, concurrently

\* The clients the concurrent calls run on: one built with no option, one
\* with a base URL (which has a query) and a default header of its own.
CallClients ==
  LET B == [op |-> "WithBaseURL", arg |-> Origin \o <<"/", "k", "?", "k">>]
      H == [op |-> "WithHeaders", arg |-> [k \in {"X-A"} |-> "d"]]
  IN {<<>>, <<B, H>>}

CallTargets == {<<>>, <<"k">>, Origin \o <<"/", "p">>}

\* The opts of the concurrent calls: nil, or a parameter and a header.
CallConfigs ==
  {NilOpts,
   [isNil |-> FALSE, Params |-> SomeParams([k \in {<<"k">>} |-> <<<<"v">>>>]),
    Body |-> NoBody, Headers |-> [k \in {"x-a"} |-> "r"]]}

\* What the raw transport was handed.
NoSent == [url |-> <<>>, Header |-> EmptyHeader]

\* A goroutine that has not called yet.
IdleProc ==
  [pc |-> "idle", method |-> "", target |-> <<>>, opts |-> NilOpts, u |-> 0, url |-> 0,
   err |-> NoError, req |-> NoRequest, sent |-> NoSent, overlapped |-> FALSE]

\* The address of the n-th URL object that goroutine p allocates.
Slot(p, n) == client.baseURL + 2 * (p - 1) + n

\* New(opts) returned; MaxCalls goroutines share the client. The heap has
\* room for the two URL objects each call can allocate.
InitCalls ==
  \E opts \in CallClients :
    \E c \in {New(opts)} :
      /\ client = [doer |-> c.doer, baseURL |-> c.baseURL, logger |-> c.logger,
                   config |-> c.config]
      /\ heap = c.heap \o [i \in 1..(2 * MaxCalls) |-> EmptyURL]
      /\ pc = "idle"
      /\ call = NoCall
      /\ res = NoRes
      /\ req = NoRequest
      /\ depth = 0
      /\ locals = <<>>
      /\ rt = NoOutcome
      /\ ret = NoReturn
      /\ attempts = <<>>
      /\ logs = <<>>
      /\ draft = c.config
      /\ applied = <<>>
      /\ trail = <<>>
      /\ maps = <<c.config.Headers>>
      /\ hdr = 1
      /\ newErr = NoError
      /\ procs = [p \in 1..MaxCalls |-> IdleProc]
      /\ factories = <<>>

callShared == <<client, pc, call, res, doVars, buildVars>>

\* The goroutines whose call has begun and is not over.
InFlight == {q \in DOMAIN procs : procs[q].pc \notin {"idle", "done"}}

\* Goroutine p enters Client.do and resolveURL parses the target into a new
\* URL object. "overlapped" remembers whether another call was in flight.
CallStart(p, method, urlOrPath, opts) ==
  /\ procs[p].pc = "idle"
  /\ \E parsed \in {Parse(urlOrPath)} :
       IF ~parsed.ok
         THEN /\ procs' = [procs EXCEPT ![p] = [@ EXCEPT !.pc = "done", !.method = method,
                             !.target = urlOrPath, !.opts = opts, !.err = ErrInvalidURL,
                             !.overlapped = InFlight # {}]]
              /\ heap' = heap
         ELSE /\ procs' = [procs EXCEPT ![p] = [@ EXCEPT !.pc = "parsed", !.method = method,
                             !.target = urlOrPath, !.opts = opts, !.u = Slot(p, 1),
                             !.overlapped = InFlight # {}]]
              /\ heap' = [heap EXCEPT ![Slot(p, 1)] = parsed.url]
  /\ UNCHANGED callShared

\* Client.Get on goroutine p.
CallGet(p, path, opts) == CallStart(p, "GET", path, opts)

\* Client.Post on goroutine p.
CallPost(p, path, opts) == CallStart(p, "POST", path, opts)

\* resolveURL on goroutine p, from the test of IsAbs to ResolveReference: the
\* base URL of the client is read.
CallResolve(p) ==
  /\ procs[p].pc = "parsed"
  /\ IF IsAbs(heap[procs[p].u])
       THEN /\ procs' = [procs EXCEPT ![p] = [@ EXCEPT !.pc = "resolved", !.url = procs[p].u]]
            /\ heap' = heap
     ELSE IF client.baseURL = 0
       THEN /\ procs' = [procs EXCEPT ![p] = [@ EXCEPT !.pc = "done", !.err = ErrNoBaseURL]]
            /\ heap' = heap
     ELSE \E r \in {resolveReference(heap, client.baseURL, procs[p].u, Slot(p, 2))} :
            /\ procs' = [procs EXCEPT ![p] = [@ EXCEPT !.pc = "resolved", !.url = r.ref]]
            /\ heap' = r.heap
  /\ UNCHANGED callShared

\* Goroutine p merges the parameters into its URL, makes the request and
\* sets the headers of the call on it.
CallPrepare(p) ==
  /\ procs[p].pc = "resolved"
  /\ \E r \in {addQueryParams(heap, procs[p].url, procs[p].opts.Params)} :
       /\ heap' = r.heap
       /\ \E n \in {NewRequestWithContext(procs[p].method, String(r.heap[r.ref]),
                                          procs[p].opts.Body)} :
            IF ~n.ok
              THEN procs' = [procs EXCEPT ![p] = [@ EXCEPT !.pc = "done", !.err = ErrInvalidURL]]
              ELSE \E h \in SetEach(n.req.Header, procs[p].opts.Headers) :
                     procs' = [procs EXCEPT ![p] =
                                 [@ EXCEPT !.pc = "doer", !.req = [n.req EXCEPT !.Header = h]]]
  /\ UNCHANGED callShared

\* The request of goroutine p goes through the chain: the headers link reads
\* the default headers and the raw transport is handed the request.
CallRoundTrip(p) ==
  /\ procs[p].pc = "doer"
  /\ \E h \in HeadersInjected(Chain[1], procs[p].req.Header) :
       procs' = [procs EXCEPT ![p] =
                   [@ EXCEPT !.pc = "done", !.req.Header = h,
                             !.sent = [url |-> String(procs[p].req.URL), Header |-> h]]]
  /\ UNCHANGED <<heap, callShared>>

NextCalls ==
  \/ \E p \in 1..MaxCalls :
       procs[p].pc = "idle" /\ \E t \in CallTargets, o \in CallConfigs : CallGet(p, t, o)
  \/ \E p \in 1..MaxCalls :
       procs[p].pc = "idle" /\ \E t \in CallTargets, o \in CallConfigs : CallPost(p, t, o)
  \/ \E p \in 1..MaxCalls : CallResolve(p)
  \/ \E p \in 1..MaxCalls : CallPrepare(p)
  \/ \E p \in 1..MaxCalls : CallRoundTrip(p)

SpecCalls == InitCalls /\ [][NextCalls]_vars

\* ------------------------------- specification: NewTransport(opts...)

\* The TransportOptions in use.
TransportOptions ==
  {WithHeadersTransport([k \in {"X-A"} |-> "d"]),
   WithLogging("custom", TRUE), WithLogging("custom", FALSE)}

\* The requests sent through the chain.
TransportRequests ==
  {[Method |-> "GET", URL |-> Parse(Origin \o <<"/", "k">>).url, Header |-> h, Body |-> b] :
     h \in {EmptyHeader, [k \in {"X-A"} |-> "r"]}, b \in Bodies}

\* An http.Client whose Transport is NewTransport(fs...).
InitTransport ==
  \E fs \in SeqsOver(TransportOptions, MaxFactories) :
    /\ client = [NoClient EXCEPT !.doer = [kind |-> "http.Client", Timeout |-> 0,
                                           Transport |-> NewTransport(fs), Jar |-> "nil"]]
    /\ heap = <<>>
    /\ pc = "idle"
    /\ call = NoCall
    /\ res = NoRes
    /\ req = NoRequest
    /\ depth = 0
    /\ locals = <<>>
    /\ rt = NoOutcome
    /\ ret = NoReturn
    /\ attempts = <<>>
    /\ logs = <<>>
    /\ draft = DefaultConfig
    /\ applied = <<>>
    /\ trail = <<>>
    /\ maps = <<DefaultConfig.Headers>>
    /\ hdr = 1
    /\ newErr = NoError
    /\ procs = <<>>
    /\ factories = fs

\* RoundTrip(r) is called on the chain: its outermost link runs first.
ChainRoundTrip(r) ==
  /\ pc = "idle"
  /\ req' = r
  /\ pc' = "roundtrip"
  /\ depth' = 1
  /\ attempts' = <<>>
  /\ logs' = <<>>
  /\ rt' = NoOutcome
  /\ UNCHANGED <<buildVars, procs, client, heap, call, res, locals, ret>>

\* The outermost link returned to the caller of the chain.
ChainReturn ==
  /\ pc = "return"
  /\ depth = 0
  /\ pc' = "idle"
  /\ UNCHANGED <<buildVars, procs, client, heap, call, res, req, depth, locals, rt, ret,
                 attempts, logs>>

NextTransport ==
  \/ pc = "idle" /\ \E r \in TransportRequests : ChainRoundTrip(r)
  \/ HeadersRoundTrip
  \/ LoggingRoundTrip
  \/ RawRoundTrip
  \/ LoggingReturn
  \/ HeadersReturn
  \/ ChainReturn

SpecTransport == InitTransport /\ [][NextTransport]_vars

\* =============================================================== claims

\* The client's base URL, the parsed target and the URL a call returned.
BaseOf == heap[client.baseURL]
TargetOf == Parse(call.target)
ResultOf == heap[res.ref]

\* A relative path with its leading slash ensured.
normalized(p) ==
  IF p = <<>> THEN <<>> ELSE IF p[1] = "/" THEN p ELSE <<"/">> \o p

\* C1 (as claimed; the code violates it): against a base URL b with a
\* non-empty path, every relative target p resolves to b's scheme and host
\* with the path b.Path followed by p, and the empty target gives exactly b.
C1_ResolvedPathExtendsBase ==
  (/\ pc = "resolved"
   /\ client.baseURL # 0
   /\ BaseOf.Path # <<>>
   /\ TargetOf.ok
   /\ TargetOf.url.Scheme = <<>>
   /\ TargetOf.url.Host = <<>>)
  => /\ res.err = NoError
     /\ ResultOf.Scheme = BaseOf.Scheme
     /\ ResultOf.Host = BaseOf.Host
     /\ ResultOf.Path = BaseOf.Path \o normalized(TargetOf.url.Path)
     /\ (call.target = <<>> /\ call.params.isNil => String(ResultOf) = String(BaseOf))

\* C5: a client without a base URL rejects every relative target with
\* "cannot resolve relative path without a base URL", and resolves every
\* target that has a scheme and a host to that very URL.
C5_NoBaseURL ==
  (pc = "resolved" /\ client.baseURL = 0 /\ TargetOf.ok)
  => /\ TargetOf.url.Scheme = <<>> => (res.err = ErrNoBaseURL /\ res.ref = 0)
     /\ (TargetOf.url.Scheme # <<>> /\ TargetOf.url.Host # <<>>)
          => /\ res.err = NoError
             /\ res.ref # 0
             /\ res.given = TargetOf.url
             /\ [ResultOf EXCEPT !.RawQuery = <<>>] = [TargetOf.url EXCEPT !.RawQuery = <<>>]

\* C5 witness: without a base URL the relative target "/k" was rejected.
C5_Witness ==
  /\ pc = "resolved"
  /\ client.baseURL = 0
  /\ call.target = <<"/", "k">>
  /\ res.err = ErrNoBaseURL

\* C6 (as claimed; the code violates it): a target is used as-is exactly when
\* it has a scheme and a host; every other target is resolved against the
\* base URL, or rejected when there is none.
C6_AbsoluteIffSchemeAndHost ==
  (pc = "resolved" /\ TargetOf.ok)
  => IF TargetOf.url.Scheme # <<>> /\ TargetOf.url.Host # <<>>
       THEN res.err = NoError /\ res.given = TargetOf.url
     ELSE IF client.baseURL = 0
       THEN res.err = ErrNoBaseURL
     ELSE res.err = NoError /\ res.given = ResolveReference(BaseOf, TargetOf.url)

RECURSIVE Pieces(_)
\* The non-empty pieces of a raw query between its "&".
Pieces(query) ==
  IF query = <<>> THEN <<>>
  ELSE LET c == Cut(query, "&") IN
       (IF c.before = <<>> THEN <<>> ELSE <<c.before>>) \o Pieces(c.after)

\* The pairs of a raw query in the order they are written; ok is false for a
\* pair whose key or value has a bad escape.
Pairs(query) ==
  LET ps == Pieces(query) IN
  [i \in 1..Len(ps) |->
     LET kv == Cut(ps[i], "=")
         k == unescape(kv.before, TRUE)
         v == unescape(kv.after, TRUE)
     IN [ok |-> k.ok /\ v.ok, k |-> k.s, v |-> v.s]]

\* The values the well-formed pairs give to key k, in order.
ValuesOf(pairs, k) ==
  LET sel == SelectSeq(pairs, LAMBDA x : x.ok /\ x.k = k) IN
  [i \in 1..Len(sel) |-> sel[i].v]

\* The values the caller supplied for key k.
Supplied(k) == IF k \in DOMAIN call.params.v THEN call.params.v[k] ELSE <<>>

KeysOf(pairs) == {pairs[i].k : i \in {j \in 1..Len(pairs) : pairs[j].ok}}

SortedByKey(pairs) == \A i \in 1..(Len(pairs) - 1) : ~StrLess(pairs[i + 1].k, pairs[i].k)

RECURSIVE SumLen(_, _)
SumLen(f, K) ==
  IF K = {} THEN 0
  ELSE LET k == CHOOSE x \in K : TRUE IN Len(f[k]) + SumLen(f, K \ {k})

RelativeOnQueriedBase ==
  /\ pc = "resolved"
  /\ client.baseURL # 0
  /\ BaseOf.RawQuery # <<>>
  /\ TargetOf.ok
  /\ TargetOf.url.Scheme = <<>>
  /\ res.err = NoError

\* The query of the result is made of the pairs of own and the supplied ones.
QueryMadeOf(own) ==
  IF call.params.isNil THEN ResultOf.RawQuery = own
  ELSE LET old == Pairs(own)
           new == Pairs(ResultOf.RawQuery)
       IN \A k \in KeysOf(old) \cup KeysOf(new) \cup DOMAIN call.params.v :
            ValuesOf(new, k) = ValuesOf(old, k) \o Supplied(k)

\* C15 (as claimed; refuted): against a base URL that has a query, the query
\* of the URL resolved for a relative target, the empty target included,
\* holds the target's own query and the caller's parameters only.
C15_Original == RelativeOnQueriedBase => QueryMadeOf(TargetOf.url.RawQuery)

\* The target is a same-document reference: no host, no path and no "?".
SameDocument(u) == u.Host = <<>> /\ u.Path = <<>> /\ u.RawQuery = <<>> /\ ~u.ForceQuery

\* C15 (amended): the query of the resolved URL holds the caller's parameters
\* and the target's own query, except for a target with no host, no path and
\* no "?" (the empty target), which takes the query of the base URL.
C15_BaseQueryOnlyForEmptyTarget ==
  RelativeOnQueriedBase =>
    /\ res.given.RawQuery =
         IF SameDocument(TargetOf.url) THEN BaseOf.RawQuery ELSE TargetOf.url.RawQuery
    /\ QueryMadeOf(res.given.RawQuery)

\* C15 witness: the empty target with the parameter k=v against a base URL
\* whose query is "k": the resolved query is "k=&k=v".
C15_Witness ==
  /\ RelativeOnQueriedBase
  /\ call.target = <<>>
  /\ BaseOf.RawQuery = <<"k">>
  /\ ~call.params.isNil /\ DOMAIN call.params.v = {<<"k">>}
  /\ ResultOf.RawQuery = <<"k", "=", "&", "k", "=", "v">>

\* ------------------------------------------------ claims on Get and Post

\* The attempts whose answer was a response with no error.
Answered == {i \in 1..Len(attempts) : attempts[i].out.err = "nil" /\ ~attempts[i].out.resp.isNil}

\* The attempts whose answer was a response with an error status.
Rejected == {i \in Answered : attempts[i].out.resp.StatusCode >= 400}

\* C2 (as claimed; the code violates it): when every attempt fails with a
\* transport-level error, a call of a client with retry attempts N makes
\* exactly N + 1 attempts and then returns a NetworkError.
C2_AttemptsUntilExhausted ==
  (/\ pc = "done"
   /\ attempts # <<>>
   /\ \A i \in 1..Len(attempts) : attempts[i].out.err # "nil")
  => /\ Len(attempts) = client.config.RetryAttempts + 1
     /\ ErrorKind(ret.err) = "NetworkError"

\* C3: a response with status >= 400 ends the call after exactly one attempt
\* with an HTTPStatusError that carries that status and that response,
\* whatever the configured retry attempt count.
C3_ErrorStatusNotRetried ==
  (pc = "done" /\ Rejected # {})
  => /\ Len(attempts) = 1
     /\ ErrorKind(ret.err) = "HTTPStatusError"
     /\ StatusCodeOf(ret.err) = attempts[1].out.resp.StatusCode
     /\ ret.err.resp = attempts[1].out.resp
     /\ ret.resp = attempts[1].out.resp

\* C3 witness: a client with retry attempts 1 was answered 404 and returned an
\* HTTPStatusError with status 404 after one attempt.
C3_Witness ==
  /\ pc = "done"
  /\ client.config.RetryAttempts = 1
  /\ Len(attempts) = 1
  /\ attempts[1].out.err = "nil"
  /\ attempts[1].out.resp.StatusCode = 404
  /\ ErrorKind(ret.err) = "HTTPStatusError"
  /\ StatusCodeOf(ret.err) = 404

\* Resolution of the target of the current call fails.
Unresolvable ==
  resolveURL(heap, client.baseURL, call.target, call.params).err # NoError

\* C4: every call ends in exactly one of four outcomes, decided by where it
\* failed: a ConfigurationError and no attempt when the target does not
\* resolve; otherwise one attempt, and a NetworkError with no response when
\* the executor returned an error, an HTTPStatusError with the response when
\* its status is >= 400, and else the executor's response with a nil error.
C4_FourOutcomes ==
  pc = "done"
  => IF Unresolvable
       THEN /\ attempts = <<>>
            /\ ErrorKind(ret.err) = "ConfigurationError"
            /\ ret.err.msg = "failed to resolve URL"
            /\ ret.resp.isNil
     ELSE /\ Len(attempts) = 1
          /\ IF attempts[1].out.err # "nil"
               THEN ErrorKind(ret.err) = "NetworkError" /\ ret.resp.isNil
             ELSE IF attempts[1].out.resp.StatusCode >= 400
               THEN /\ ErrorKind(ret.err) = "HTTPStatusError"
                    /\ ret.resp = attempts[1].out.resp
             ELSE /\ ErrorKind(ret.err) = "none"
                  /\ ret.err = NilError
                  /\ ret.resp = attempts[1].out.resp

\* C4 witness: a custom doer returned a response together with an error, and
\* the call returned a NetworkError with no response.
C4_Witness ==
  /\ pc = "done"
  /\ Len(attempts) = 1
  /\ attempts[1].out.err # "nil"
  /\ ~attempts[1].out.resp.isNil
  /\ ErrorKind(ret.err) = "NetworkError"
  /\ ret.resp.isNil

\* The default headers whose name is that of header k, case-insensitively.
DefaultsNamed(k) == {d \in DOMAIN client.config.Headers : Canon(d) = Canon(k)}

\* The headers of the call whose name is that of header k, case-insensitively.
CallHeadersNamed(k) == {h \in DOMAIN call.headers : Canon(h) = Canon(k)}

\* C8 (as claimed; the code violates it): a request that passed the
\* header-injection link carries, for every header of the call that has the
\* name of a default header, the value of the call, whatever that value is.
C8_RequestHeaderWins ==
  \A i \in 1..Len(attempts) :
    \A k \in DOMAIN call.headers :
      (client.doer.kind = "http.Client" /\ DefaultsNamed(k) # {})
        => HGet(attempts[i].req.Header, k) = call.headers[k]

\* C9 (as claimed; the code violates it): every request handed to the
\* executor carries every default header the call did not override, for every
\* client New builds.
C9_DefaultHeadersOnEveryRequest ==
  \A i \in 1..Len(attempts) :
    \A d \in DOMAIN client.config.Headers :
      CallHeadersNamed(d) = {}
        => \E e \in DefaultsNamed(d) :
             /\ Canon(d) \in DOMAIN attempts[i].req.Header
             /\ HGet(attempts[i].req.Header, d) = client.config.Headers[e]

\* The places of the records with message msg in the log.
RecordsOf(msg) == {i \in 1..Len(logs) : logs[i].msg = msg}

LastArg(P(_), d) ==
  IF \E i \in 1..Len(applied) : P(applied[i])
    THEN applied[CHOOSE i \in 1..Len(applied) :
                   P(applied[i]) /\ \A j \in (i + 1)..Len(applied) : ~P(applied[j])].arg
    ELSE d

\* o is a headers option whose map has the name k.
Naming(k, o) == o.op = "WithHeaders" /\ k \in DOMAIN o.arg

\* The names the applied headers options give a value to.
NamesGiven ==
  UNION {DOMAIN applied[i].arg : i \in {j \in 1..Len(applied) : applied[j].op = "WithHeaders"}}

\* C11: after the defaults and then the options in order, the timeout is the
\* last positive duration supplied (else 10 s), the retry count the last
\* non-negative integer (else 3), the debug flag the last one supplied (else
\* off), the logger, cookie jar and custom executor the last non-nil value
\* supplied, and every header name has the value of the last headers option
\* that contains it, User-Agent having its default when none does.
C11_LastOptionWins ==
  /\ draft.Timeout = LastArg(LAMBDA o : o.op = "WithTimeout" /\ o.arg > 0, defaultTimeout)
  /\ draft.RetryAttempts =
       LastArg(LAMBDA o : o.op = "WithRetryAttempts" /\ o.arg >= 0, defaultRetryAttempts)
  /\ draft.Debug = LastArg(LAMBDA o : o.op = "WithDebug", FALSE)
  /\ draft.Logger = LastArg(LAMBDA o : o.op = "WithLogger" /\ o.arg # "nil", "NoOp")
  /\ draft.Jar = LastArg(LAMBDA o : o.op = "WithCookieJar" /\ o.arg # "nil", "nil")
  /\ draft.CustomDoer = LastArg(LAMBDA o : o.op = "WithCustomDoer" /\ o.arg # "nil", "nil")
  /\ DOMAIN draft.Headers = {"User-Agent"} \cup NamesGiven
  /\ \A k \in DOMAIN draft.Headers :
       draft.Headers[k] =
         IF k \in NamesGiven THEN LastArg(LAMBDA o : Naming(k, o), EmptyHeader)[k] ELSE defaultUserAgent
  /\ pc = "built" => client.config = draft

\* C11 witness: New returned after two headers options that give different
\* values to one name; the client has the value of the second.
C11_Witness ==
  /\ pc = "built"
  /\ \E k \in BuildHeaderNames :
       \E i, j \in 1..Len(applied) :
         /\ i < j
         /\ Naming(k, applied[i]) /\ Naming(k, applied[j])
         /\ applied[i].arg[k] # applied[j].arg[k]
         /\ client.config.Headers[k] = applied[j].arg[k]

\* The draft as it was after the first i applied options.
DraftAfter(i) == IF i = Len(applied) THEN draft ELSE trail[i + 1]

\* C12: merging a header map is idempotent: the headers option for h applied
\* twice in a row leaves the draft as one application does, for every draft
\* the options can produce and every map h.
C12_HeaderMergeIdempotent ==
  /\ \A i \in 1..(Len(applied) - 1) :
       applied[i].op = "WithHeaders" /\ applied[i + 1] = applied[i]
         => DraftAfter(i + 1) = DraftAfter(i)
  /\ \A h \in BuildHeaderMaps :
       WithHeaders(WithHeaders(draft, h), h) = WithHeaders(draft, h)

\* C12 witness: the same non-empty map was merged twice in a row, and the
\* first merge changed the draft.
C12_Witness ==
  \E i \in 1..(Len(applied) - 1) :
    /\ applied[i].op = "WithHeaders" /\ applied[i + 1] = applied[i]
    /\ DraftAfter(i) # DraftAfter(i - 1)
    /\ DraftAfter(i + 1) = DraftAfter(i)

\* The headers options applied, in order: the map of the i-th is maps[i + 1].
HeadersOptions == SelectSeq(applied, LAMBDA o : o.op = "WithHeaders")

\* The map that cfg.Headers refers to; buildTransport hands the same map to
\* the headers link.
LiveHeaders == maps[hdr]

C14_BaseURLNormalized ==
  \/ draft.BaseURL.isNil
  \/ /\ draft.BaseURL.url.Scheme # <<>>
     /\ draft.BaseURL.url.Host # <<>>
     /\ (draft.BaseURL.url.Path = <<>>
           \/ draft.BaseURL.url.Path[Len(draft.BaseURL.url.Path)] # "/")

\* What the call of goroutine c gives when it runs alone on the client as New
\* returned it: its error, the URL sent and the headers that may be sent.
Alone(c) ==
  LET base == IF client.baseURL = 0 THEN <<>> ELSE <<client.config.BaseURL.url>>
      r == resolveURL(base, client.baseURL, c.target, c.opts.Params)
      n == NewRequestWithContext(c.method, String(r.heap[r.ref]), c.opts.Body)
  IN IF r.err # NoError THEN [err |-> r.err, url |-> <<>>, headers |-> {}]
     ELSE IF ~n.ok THEN [err |-> ErrInvalidURL, url |-> <<>>, headers |-> {}]
     ELSE [err |-> NoError, url |-> String(n.req.URL),
           headers |-> UNION {SetMissing(h, client.config.Headers) :
                                h \in SetEach(EmptyHeader, c.opts.Headers)}]

\* The base URL, the default headers and the chain are as New made them.
SnapshotIntact ==
  /\ client.baseURL # 0 => heap[client.baseURL] = client.config.BaseURL.url
  /\ client.config = draft
  /\ LiveHeaders = client.config.Headers
  /\ Chain = buildTransport(client.config)

\* Every call that is over ended as it does alone.
AsAlone ==
  \A p \in DOMAIN procs :
    procs[p].pc = "done" =>
      \E a \in {Alone(procs[p])} :
        /\ procs[p].err = a.err
        /\ a.err = NoError => procs[p].sent.url = a.url /\ procs[p].sent.Header \in a.headers

\* C16: however concurrent Get and Post calls on one client interleave, the
\* configuration snapshot and the transport chain are never written after New
\* returned, and each call resolves the URL and sends the headers it resolves
\* and sends when it runs alone.
C16_CallsDoNotInterfere ==
  /\ [](SnapshotIntact /\ AsAlone)
  /\ [][client' = client /\ maps' = maps]_vars

\* C16 witness: a call began while another one was in flight; two calls
\* resolved against the base URL are over and sent different URLs and headers.
C16_Witness ==
  \E p, q \in DOMAIN procs :
    /\ client.baseURL # 0
    /\ p # q
    /\ procs[p].overlapped
    /\ procs[p].pc = "done" /\ procs[q].pc = "done"
    /\ procs[p].url = Slot(p, 2) /\ procs[q].url = Slot(q, 2)
    /\ procs[p].err = NoError /\ procs[q].err = NoError
    /\ procs[p].sent.url # procs[q].sent.url
    /\ procs[p].sent.Header # procs[q].sent.Header

\* C17 (as claimed; the code violates it): NewTransport(o1, ..., on) makes
\* the last option, on, the outermost link and o1 the innermost, so the link
\* that runs first on a request is the one on made; with no option the chain
\* is the raw transport itself.
C17_LastIsOutermost ==
  /\ Len(Chain) = Len(factories)
  /\ \A i \in 1..Len(factories) : Chain[i] = factories[Len(factories) + 1 - i]
  /\ (pc = "roundtrip" /\ depth = 1 /\ factories # <<>>)
       => Chain[depth] = factories[Len(factories)]

\* The headers the request of the current call may carry once the headers
\* link has run: those of the call, then the defaults that were missing.
AfterInjection ==
  UNION {SetMissing(h, client.config.Headers) : h \in SetEach(EmptyHeader, call.headers)}

DebugOn == client.doer.kind = "http.Client" /\ \E i \in 1..Len(Chain) :
             Chain[i].kind = "logging" /\ Chain[i].Debug

\* The logging link of the current call has returned to its caller.
LoggingHasReturned == (pc = "return" /\ depth <= 1) \/ pc \in {"classify", "done"}

\* C19: with debug on the logging link is transparent to bodies: the next
\* link reads exactly the bytes of the body the call was given, the caller
\* reads exactly the bytes of the body the raw transport answered with, and
\* the response and the error go through unchanged.
C19_LoggingTransparent ==
  DebugOn =>
    /\ (pc = "roundtrip" /\ depth = Len(Chain) + 1) => req.Body = call.body
    /\ \A i \in 1..Len(attempts) : attempts[i].req.Body = call.body
    /\ (LoggingHasReturned /\ attempts # <<>>) =>
         /\ rt.err = attempts[Len(attempts)].out.err
         /\ rt.resp = attempts[Len(attempts)].out.resp
    /\ (pc = "done" /\ attempts # <<>> /\ ~ret.resp.isNil) =>
         ret.resp.Body.data = attempts[Len(attempts)].out.resp.Body.data

\* C19 witness: with debug on a call with the body "b" is over; the raw
\* transport read "b", the request record has it, and the caller holds the
\* response with the body the transport sent.
C19_Witness ==
  /\ DebugOn
  /\ pc = "done"
  /\ call.body = BodyOf(<<"b">>)
  /\ Len(attempts) = 1
  /\ attempts[1].req.Body.data = <<"b">>
  /\ \E i \in 1..Len(logs) : logs[i].msg = "HTTP Request" /\ logs[i].body = <<"b">>
  /\ \E i \in 1..Len(logs) : logs[i].msg = "HTTP Response" /\ logs[i].body = <<"r">>
  /\ ~ret.resp.isNil /\ ret.resp.Body.data = <<"r">>

\* A base URL string that is empty, does not parse, or is not absolute in the
\* sense of the specification: it lacks a scheme or a host.
NotAbsolute(baseURL) ==
  \/ baseURL = <<>>
  \/ ~Parse(baseURL).ok
  \/ Parse(baseURL).url.Scheme = <<>>
  \/ Parse(baseURL).url.Host = <<>>

\* The option carries a value that is to be ignored.
InvalidValue(o) ==
  CASE o.op = "WithTimeout" -> o.arg <= 0
    [] o.op = "WithRetryAttempts" -> o.arg < 0
    [] o.op = "WithBaseURL" -> NotAbsolute(o.arg)
    [] o.op \in {"WithLogger", "WithCookieJar", "WithCustomDoer"} -> o.arg = "nil"
    [] OTHER -> FALSE

\* C20 (as claimed; the code violates it): the build never fails: New
\* returns a client and a nil error for every sequence of options, and an
\* option with an invalid value (a timeout that is not positive, a negative
\* retry count, an empty or non-absolute base URL, a nil logger, cookie jar
\* or executor) leaves every field of the draft as it was.
C20_InvalidOptionsIgnored ==
  /\ pc = "built" => newErr = NoError /\ client.doer.kind # "nil" /\ client.config = draft
  /\ \A i \in 1..Len(applied) :
       InvalidValue(applied[i]) => DraftAfter(i) = DraftAfter(i - 1)

\* The target of the current call does not parse, or has no scheme while the
\* client has no base URL.
ResolutionFails ==
  \E parsed \in {Parse(call.target)} :
    \/ ~parsed.ok
    \/ parsed.url.Scheme = <<>> /\ client.baseURL = 0

\* C21: when the resolution of the target fails (the target does not parse,
\* or it is relative and the client has no base URL) the executor is never
\* invoked for the call: no attempt reaches the doer or the transport,
\* nothing is logged, and the call returns the error at once.
C21_NoAttemptWhenUnresolved ==
  (pc # "idle" /\ ResolutionFails) =>
    /\ pc = "done"
    /\ attempts = <<>>
    /\ logs = <<>>
    /\ req = NoRequest
    /\ ret.resp.isNil
    /\ ErrorKind(ret.err) = "ConfigurationError"
    /\ ret.err.msg = "failed to resolve URL"
    /\ ret.err.cause = IF Parse(call.target).ok THEN ErrNoBaseURL ELSE ErrInvalidURL

\* C21 witness: the relative target "k" on a client without a base URL: the
\* call is over with the resolution error, a nil response and no attempt.
C21_Witness ==
  /\ pc = "done"
  /\ ResolutionFails
  /\ call.target = <<"k">>
  /\ client.baseURL = 0
  /\ attempts = <<>>
  /\ ret.resp.isNil
  /\ ret.err.cause = ErrNoBaseURL

\* C22: after any sequence of Get and Post calls, successful or failed, the
\* base URL the client holds (scheme, host, path and query) is the one set at
\* construction: resolution and the merge of the query parameters write to a
\* URL object of the call, never to the base.
C22_BaseURLUntouched ==
  IF client.baseURL = 0 THEN heap = <<>> /\ client.config.BaseURL.isNil
  ELSE /\ client.baseURL = 1
       /\ Len(heap) = 1
       /\ heap[client.baseURL] = client.config.BaseURL.url
       /\ heap[client.baseURL] \in
            {normalizeBaseURL(o.arg).url : o \in {d \in DispatchOptions : d.op = "WithBaseURL"}}

\* C22 witness: against the base URL "s://h/k?k" a call with the empty
\* target and the parameter k=v is over: its request went out with the query
\* "k=&k=v" and the base URL still has the query "k".
C22_Witness ==
  /\ pc = "done"
  /\ client.baseURL # 0
  /\ call.target = <<>>
  /\ ~call.params.isNil
  /\ Len(attempts) = 1
  /\ attempts[1].req.URL.RawQuery = <<"k", "=", "&", "k", "=", "v">>
  /\ heap[client.baseURL].RawQuery = <<"k">>
  /\ heap[client.baseURL].Path = <<"/", "k">>

====
